---- MODULE Spec2Model ----
(***************************************************************************)
(* Miniflux -> Instapaper webhook bridge (src/app.py).                     *)
(*                                                                         *)
(* One request is handled at a time: webhook_handler verifies the          *)
(* signature, parses the body, routes on the event type and saves entries  *)
(* through InstapaperClient.add_article.  The handler is cut only where it *)
(* waits for the bookmarking service: WebhookHandler runs from the arrival *)
(* of the request to the first outbound POST (or to the response), and     *)
(* PostReturns runs from the upstream reply to the next outbound POST (or  *)
(* to the response).                                                       *)
(*                                                                         *)
(* HMAC-SHA256 is modelled symbolically: the digest of msg under key is    *)
(* the term [key, msg], so two digests are equal exactly when key and      *)
(* message are equal (no collisions).                                      *)
(***************************************************************************)
EXTENDS Integers, Sequences, FiniteSets, TLC

VARIABLES
    secret,     \* MINIFLUX_WEBHOOK_SECRET, read once at start-up
    username,   \* INSTAPAPER_USERNAME, read once at start-up
    pc,         \* "idle" | "post" | "done": where the handler stands
    req,        \* the request being handled: signature, event type, body
    i,          \* index of the entry whose loop body ran last (0: none)
    count,      \* processed_count of process_new_entries
    calls,      \* outbound POSTs completed for this request, in order
    inflight,   \* index of the entry whose POST is outstanding (0: none)
    resp,       \* the response returned for this request
    probe       \* last direct call of a function (unit-level specification)

vars == <<secret, username, pc, req, i, count, calls, inflight, resp, probe>>

\* Longest entries list of a payload.
MaxEntries == 3

\* Most segments (texts, tags, stray brackets) a content string is built from.
MaxSegments == 2

\* Longest tag-stripped text sent untruncated (line 174).
NoteLimit == 200

----------------------------------------------------------------------------
(* Values *)

\* A key that is absent from a JSON object (dict.get returns its default).
Absent == "<absent>"

\* A JSON value of the wrong type where a string is expected.
NonString == "<non-string>"

\* os.getenv gives None when the variable is unset; None and '' are both falsy.
NoSecret == ""

Secrets == {NoSecret, "s3cret"}

\* Keys a sender may sign with.
Keys == {"s3cret", "wrong"}

Usernames == {"", "user"}

EventTypes == {"new_entries", "save_entry", "entry_deleted"}

\* Entry records of a payload.  isObj = FALSE is a JSON value that is not an
\* object (a string, a number): it has no .get.
NonObjEntry == [isObj |-> FALSE, url |-> Absent, title |-> Absent, content |-> Absent]

ListEntries ==
    { [isObj |-> TRUE, url |-> "https://x.test", title |-> "T", content |-> "<p>hi</p>"],
      [isObj |-> TRUE, url |-> Absent, title |-> "T", content |-> "<p>hi</p>"],
      [isObj |-> TRUE, url |-> "", title |-> "T", content |-> Absent],
      [isObj |-> TRUE, url |-> "https://x.test", title |-> "T", content |-> NonString],
      NonObjEntry }

SingleEntries ==
    ListEntries \cup
    { [isObj |-> TRUE, url |-> "https://y.test", title |-> Absent, content |-> Absent] }

NoEntry == [isObj |-> TRUE, url |-> Absent, title |-> Absent, content |-> Absent]

EntryLists == UNION { [1..n -> ListEntries] : n \in 0..MaxEntries }

\* Request bodies.  json is what json.loads makes of the raw bytes:
\*   "invalid"  not JSON             "null", "emptyobj", "emptylist"  falsy values
\*   "list"     a non-empty list     "object"  a non-empty object
\* For an object: feed is "absent", "null" (not an object), "untitled" or
\* "titled"; entries is "absent", "null" or "list" (then items holds it);
\* entry is "absent" or "present" (then single holds it).
Body(json, feed, entries, items, entry, single) ==
    [json |-> json, feed |-> feed, entries |-> entries, items |-> items,
     entry |-> entry, single |-> single]

PlainBody(json) == Body(json, "absent", "absent", <<>>, "absent", NoEntry)

Bodies ==
    { PlainBody(j) : j \in {"invalid", "null", "emptyobj", "emptylist", "list", "object"} }
    \cup { Body("object", f, e, <<>>, "absent", NoEntry) :
             f \in {"absent", "null", "untitled", "titled"}, e \in {"absent", "null"} }
    \cup { Body("object", f, "list", l, "absent", NoEntry) :
             f \in {"absent", "null", "untitled", "titled"}, l \in EntryLists }
    \cup { Body("object", "absent", "absent", <<>>, "present", s) : s \in SingleEntries }

\* hmac.new(key, msg, hashlib.sha256).hexdigest()
HmacSha256Hex(key, msg) == [kind |-> "hex", key |-> key, msg |-> msg]

\* Values of the X-Miniflux-Signature header: a hex digest, the empty string
\* (the header's default), or a string with a character outside ASCII.
EmptySignature == [kind |-> "empty", key |-> "", msg |-> PlainBody("null")]

NonAsciiSignature == [kind |-> "nonascii", key |-> "", msg |-> PlainBody("null")]

SignaturesFor(body) ==
    { HmacSha256Hex(k, body) : k \in Keys }
    \cup { HmacSha256Hex("s3cret", PlainBody("object")) }
    \cup { EmptySignature, NonAsciiSignature }

\* What requests.post comes back with: an HTTP status, or 0 for a
\* requests.exceptions.RequestException (DNS, refused, timeout), or -1 for any
\* other exception raised inside add_article's try block.
UpstreamReplies == {201, 403, 400, 500, 418, 200, 0, -1}

NoResponse == [code |-> 0, body |-> <<>>]

NoRequest == [signature |-> EmptySignature, event_type |-> "", body |-> PlainBody("null")]

NoProbe == [fn |-> "none"]

----------------------------------------------------------------------------
(* Pure functions *)

\* hmac.compare_digest(a, b) on two str: TypeError when one holds a non-ASCII
\* character, else equality.
CompareDigest(expected, signature) ==
    IF signature.kind = "nonascii" THEN "TypeError"
    ELSE IF expected = signature THEN "True" ELSE "False"

VerifyIgnoresSignature(payload, signature, key) == "True"

\* verify_webhook_signature: "True", "False", or "TypeError" when it raises.
verify_webhook_signature(payload, signature, key) ==
    IF key = NoSecret THEN "True"
    ELSE CompareDigest(HmacSha256Hex(key, payload), signature)

\* A Python value used as a condition: None, '' and a missing key are falsy.
Falsy(v) == v = Absent \/ v = ""

\* The outcome add_article reaches for an upstream reply (lines 85-113): the
\* branch taken (named after the spec's SaveOutcome), the boolean returned, and
\* whether an exception left the call.
AddArticleAccepts200(reply) ==
    CASE reply \in {200, 201} -> [ok |-> TRUE, outcome |-> "Saved",       raised |-> FALSE]
      [] reply = 403 -> [ok |-> FALSE, outcome |-> "AuthFailed",         raised |-> FALSE]
      [] reply = 400 -> [ok |-> FALSE, outcome |-> "BadRequest",         raised |-> FALSE]
      [] reply = 500 -> [ok |-> FALSE, outcome |-> "ServiceUnavailable", raised |-> FALSE]
      [] reply = 0   -> [ok |-> FALSE, outcome |-> "TransportError",     raised |-> FALSE]
      [] reply = -1  -> [ok |-> FALSE, outcome |-> "UnexpectedError",    raised |-> FALSE]
      [] OTHER       -> [ok |-> FALSE, outcome |-> "UnexpectedStatus",   raised |-> FALSE]

add_article(reply) ==
    CASE reply = 201 -> [ok |-> TRUE,  outcome |-> "Saved",              raised |-> FALSE]
      [] reply = 403 -> [ok |-> FALSE, outcome |-> "AuthFailed",         raised |-> FALSE]
      [] reply = 400 -> [ok |-> FALSE, outcome |-> "BadRequest",         raised |-> FALSE]
      [] reply = 500 -> [ok |-> FALSE, outcome |-> "ServiceUnavailable", raised |-> FALSE]
      [] reply = 0   -> [ok |-> FALSE, outcome |-> "TransportError",     raised |-> FALSE]
      [] reply = -1  -> [ok |-> FALSE, outcome |-> "UnexpectedError",    raised |-> FALSE]
      [] OTHER       -> [ok |-> FALSE, outcome |-> "UnexpectedStatus",   raised |-> FALSE]

\* request.get_json(): "raise" when the body is not JSON, else the value.
get_json(body) == IF body.json = "invalid" THEN "raise" ELSE "value"

\* `not data` (line 289)
EmptyOnlyWhenNull(body) == body.json = "null"

EmptyPayload(body) == body.json \in {"null", "emptyobj", "emptylist"}

\* Whether data has a .get: a JSON object, empty or not.
IsObject(body) == body.json \in {"object", "emptyobj"}

\* data.get('entries', []) (line 297)
EntriesOf(body) == IF body.entries = "list" THEN body.items ELSE <<>>

\* data.get('feed', {}).get('title', 'Unknown feed') (line 298)
FeedTitle(body) == IF body.feed = "titled" THEN "F" ELSE "Unknown feed"

\* data.get('entry', {}) (line 313)
EntryOf(body) == IF body.entry = "present" THEN body.single ELSE NoEntry

\* entry.get('title', 'Unknown title') (line 323)
EntryTitle(entry) == IF entry.title = Absent THEN "Unknown title" ELSE entry.title

\* What one pass through the loop body does with an entry before any POST
\* (lines 159-183, 191-192):
\*   "skip"   no url: logged, continue
\*   "caught" the body raised and the handler at 191 logged it
\*   "raise"  the body raised and the handler's own entry.get raised again
\*   "post"   add_article is called
NeverSkips(entry) ==
    IF ~entry.isObj THEN "raise"
    ELSE IF entry.content = NonString THEN "caught"
    ELSE "post"

EntryStep(entry) ==
    IF ~entry.isObj THEN "raise"
    ELSE IF Falsy(entry.url) THEN "skip"
    ELSE IF entry.content = NonString THEN "caught"
    ELSE "post"

\* The for loop of process_new_entries from index `from` on, up to the first
\* entry that needs a POST, the first exception that leaves the loop, or the
\* end of the list.
RECURSIVE LoopFrom(_, _)
LoopFrom(entries, from) ==
    IF from > Len(entries) THEN [kind |-> "end", at |-> Len(entries)]
    ELSE LET step == EntryStep(entries[from])
         IN  IF step \in {"post", "raise"} THEN [kind |-> step, at |-> from]
             ELSE LoopFrom(entries, from + 1)

\* The index the loop goes on with after the POST for entry idx returned.
RetryOnFailure(idx, ok) == IF ok THEN idx + 1 ELSE idx

AfterPost(idx, ok) == idx + 1

\* process_saved_entry up to its POST (lines 207-236): "False" when it returns
\* False without calling add_article, else "post".
SavedEntryStep(entry) ==
    IF username = "" THEN "False"
    ELSE IF Falsy(entry.url) THEN "False"
    ELSE IF entry.content = NonString THEN "False"
    ELSE "post"

----------------------------------------------------------------------------
(* Strings and the note *)

\* A string is a sequence of runs [ch, n]: n >= 1 copies of ch, neighbouring
\* runs holding different characters.  "a" stands for any character other
\* than the angle brackets, "." for the dots of the marker.
Run(ch, n) == [ch |-> ch, n |-> n]

\* A character (or run) put in front of a string.
Cons(run, s) ==
    IF s # <<>> /\ s[1].ch = run.ch
    THEN <<Run(run.ch, run.n + s[1].n)>> \o Tail(s)
    ELSE <<run>> \o s

\* a + b
RECURSIVE Cat(_, _)
Cat(a, b) == IF a = <<>> THEN b ELSE Cons(Head(a), Cat(Tail(a), b))

\* len(s)
RECURSIVE StrLen(_)
StrLen(s) == IF s = <<>> THEN 0 ELSE Head(s).n + StrLen(Tail(s))

\* s[:k]
RECURSIVE Take(_, _)
Take(s, k) ==
    IF s = <<>> \/ k <= 0 THEN <<>>
    ELSE IF Head(s).n >= k THEN <<Run(Head(s).ch, k)>>
    ELSE <<Head(s)>> \o Take(Tail(s), k - Head(s).n)

\* s[1:]
DropFirst(s) ==
    IF Head(s).n = 1 THEN Tail(s) ELSE <<Run(Head(s).ch, Head(s).n - 1)>> \o Tail(s)

\* Whether a ">" occurs in s.
HasClose(s) == \E k \in 1..Len(s) : s[k].ch = ">"

\* s from just after its first ">" on.
RECURSIVE DropThroughClose(_)
DropThroughClose(s) ==
    IF s = <<>> THEN <<>>
    ELSE IF Head(s).ch = ">" THEN DropFirst(s)
    ELSE DropThroughClose(Tail(s))

\* re.sub(r'<[^>]+>', '', s): scanning from the left, a "<" followed by at
\* least one character other than ">" and then a ">" is removed with all
\* between; a "<" directly before a ">" and a "<" with no ">" after it stay.
RECURSIVE StripTags(_)
StripTags(s) ==
    IF s = <<>> THEN <<>>
    ELSE IF Head(s).ch # "<" THEN Cons(Head(s), StripTags(Tail(s)))
    ELSE LET rest == DropFirst(s)
         IN  IF ~HasClose(rest) THEN s
             ELSE IF Head(rest).ch = ">" THEN Cons(Run("<", 1), StripTags(rest))
             ELSE StripTags(DropThroughClose(rest))

\* An optional string: None (or a missing key) is present = FALSE.
Some(text) == [present |-> TRUE, text |-> text]

None == [present |-> FALSE, text |-> <<>>]

\* The "..." appended to a truncated text (line 175).
Marker == <<Run(".", 3)>>

\* description of process_new_entries for an entry's content (lines 168-177).
DescriptionTruncatesAtLimit(content) ==
    IF ~content.present \/ content.text = <<>> THEN None
    ELSE LET text_content == StripTags(content.text)
         IN  IF StrLen(text_content) >= NoteLimit
             THEN Some(Cat(Take(text_content, NoteLimit), Marker))
             ELSE Some(text_content)

NewEntriesDescription(content) ==
    IF ~content.present \/ content.text = <<>> THEN None
    ELSE LET text_content == StripTags(content.text)
         IN  IF StrLen(text_content) > NoteLimit
             THEN Some(Cat(Take(text_content, NoteLimit), Marker))
             ELSE Some(text_content)

\* `if selection:` of add_article (lines 74-75): whether the selection field
\* is put in the form data.
SelectionSent(selection) == selection.present /\ selection.text # <<>>

\* The pieces content strings are built from: texts of several lengths, a
\* short and a long tag, "<>", and stray brackets.
Segments ==
    { <<Run("a", n)>> : n \in {1, 47, 50, 100, 197, 200, 201, 497, 500} }
    \cup { <<Run("<", 1), Run("a", 1), Run(">", 1)>>,
           <<Run("<", 1), Run("a", 398), Run(">", 1)>>,
           <<Run("<", 1), Run(">", 1)>>,
           <<Run("<", 1)>>,
           <<Run(">", 1)>> }

RECURSIVE Join(_)
Join(segs) == IF segs = <<>> THEN <<>> ELSE Cat(Head(segs), Join(Tail(segs)))

\* entry.get('content', ''): absent, or a string of up to MaxSegments segments
\* (the empty string included).
Contents ==
    {None} \cup
    { Some(Join(segs)) : segs \in UNION { [1..n -> Segments] : n \in 0..MaxSegments } }

----------------------------------------------------------------------------
(* Responses of webhook_handler *)

Forbidden == [code |-> 403, body |-> [error |-> "Invalid signature"]]

InvalidJson == [code |-> 400, body |-> [error |-> "Invalid JSON"]]

EmptyPayloadResponse == [code |-> 400, body |-> [error |-> "Empty payload"]]

CatchAllAnswersBadRequest == [code |-> 400, body |-> [error |-> "Internal server error"]]

InternalError == [code |-> 500, body |-> [error |-> "Internal server error"]]

Summary(event_type, received, processed, feed) ==
    [code |-> 200,
     body |-> [status |-> "success", event_type |-> event_type,
               entries_received |-> received, entries_processed |-> processed,
               feed |-> feed]]

SavedAlwaysSuccess(event_type, success, title) ==
    [code |-> 200,
     body |-> [status |-> "success", event_type |-> event_type,
               entry_processed |-> success, entry_title |-> title]]

SavedResponse(event_type, success, title) ==
    [code |-> 200,
     body |-> [status |-> IF success THEN "success" ELSE "error",
               event_type |-> event_type,
               entry_processed |-> success, entry_title |-> title]]

IgnoredWithoutStatus(event_type) ==
    [code |-> 200, body |-> [message |-> "Event type not supported"]]

Ignored(event_type) ==
    [code |-> 200,
     body |-> [status |-> "ignored", event_type |-> event_type,
               message |-> "Event type not supported"]]

----------------------------------------------------------------------------
(* The handler *)

Respond(r, idx, cnt) ==
    /\ pc' = "done"
    /\ resp' = r
    /\ i' = idx
    /\ count' = cnt
    /\ inflight' = 0

Post(idx, cnt) ==
    /\ pc' = "post"
    /\ resp' = NoResponse
    /\ i' = idx
    /\ count' = cnt
    /\ inflight' = idx

\* process_new_entries from entry `from` on, then lines 304-310 or 334-336.
RunNewEntries(r, from, cnt) ==
    LET entries == EntriesOf(r.body)
        loop == LoopFrom(entries, from)
    IN  CASE loop.kind = "post"  -> Post(loop.at, cnt)
          [] loop.kind = "raise" -> Respond(InternalError, loop.at, cnt)
          [] loop.kind = "end"   ->
                Respond(Summary(r.event_type, Len(entries), cnt, FeedTitle(r.body)),
                        loop.at, cnt)

RouteNewEntriesIgnoresUsername(r) ==
    IF ~IsObject(r.body) \/ r.body.feed = "null" \/ r.body.entries = "null"
    THEN Respond(InternalError, 0, 0)
    ELSE RunNewEntries(r, 1, 0)

\* Lines 296-310.
RouteNewEntries(r) ==
    IF ~IsObject(r.body) \/ r.body.feed = "null" \/ r.body.entries = "null"
    THEN Respond(InternalError, 0, 0)
    ELSE IF username = ""
    THEN Respond(Summary(r.event_type, Len(EntriesOf(r.body)), 0, FeedTitle(r.body)), 0, 0)
    ELSE RunNewEntries(r, 1, 0)

\* Lines 312-324.
RouteSaveEntry(r) ==
    IF ~IsObject(r.body) \/ ~EntryOf(r.body).isObj
    THEN Respond(InternalError, 0, 0)
    ELSE IF SavedEntryStep(EntryOf(r.body)) = "post"
    THEN Post(1, 0)
    ELSE Respond(SavedResponse(r.event_type, FALSE, EntryTitle(EntryOf(r.body))), 0, 0)

\* Lines 295-332.
Route(r) ==
    CASE r.event_type = "new_entries" -> RouteNewEntries(r)
      [] r.event_type = "save_entry"  -> RouteSaveEntry(r)
      [] OTHER                        -> Respond(Ignored(r.event_type), 0, 0)

\* Lines 282-291: the response that ends handling, or NoResponse to go on.
ParseGate(body) ==
    IF get_json(body) = "raise" THEN InvalidJson
    ELSE IF EmptyPayload(body) THEN EmptyPayloadResponse
    ELSE NoResponse

\* Lines 275-280, with the TypeError of compare_digest reaching line 334.
SignatureGate(r) ==
    IF secret = NoSecret THEN NoResponse
    ELSE LET v == verify_webhook_signature(r.body, r.signature, secret)
         IN  CASE v = "True"  -> NoResponse
               [] v = "False" -> Forbidden
               [] OTHER       -> InternalError

\* webhook_handler from the arrival of a request to its first outbound POST or
\* its response.
WebhookHandler ==
    /\ pc = "idle"
    /\ \E body \in Bodies, event_type \in EventTypes :
         \E signature \in SignaturesFor(body) :
            LET r == [signature |-> signature, event_type |-> event_type, body |-> body]
            IN  /\ req' = r
                /\ calls' = <<>>
                /\ IF SignatureGate(r) # NoResponse THEN Respond(SignatureGate(r), 0, 0)
                   ELSE IF ParseGate(body) # NoResponse THEN Respond(ParseGate(body), 0, 0)
                   ELSE Route(r)
    /\ UNCHANGED <<secret, username, probe>>

\* requests.post returns (or raises): add_article maps the reply, and the
\* handler runs on to the next POST or to its response.
PostReturns ==
    /\ pc = "post"
    /\ \E reply \in UpstreamReplies :
         LET result == add_article(reply)
             call == [entry |-> inflight, reply |-> reply, result |-> result]
         IN  /\ calls' = Append(calls, call)
             /\ IF req.event_type = "new_entries"
                THEN RunNewEntries(req, AfterPost(inflight, result.ok),
                                   IF result.ok THEN count + 1 ELSE count)
                ELSE Respond(SavedResponse(req.event_type, result.ok,
                                           EntryTitle(EntryOf(req.body))), i, 0)
    /\ UNCHANGED <<secret, username, req, probe>>

\* The response has been sent; the service waits for the next request.
NextRequest ==
    /\ pc = "done"
    /\ pc' = "idle"
    /\ req' = NoRequest
    /\ i' = 0
    /\ count' = 0
    /\ calls' = <<>>
    /\ inflight' = 0
    /\ resp' = NoResponse
    /\ UNCHANGED <<secret, username, probe>>

----------------------------------------------------------------------------
Init ==
    /\ secret \in Secrets
    /\ username \in Usernames
    /\ pc = "idle"
    /\ req = NoRequest
    /\ i = 0
    /\ count = 0
    /\ calls = <<>>
    /\ inflight = 0
    /\ resp = NoResponse
    /\ probe = NoProbe

\* A direct call of verify_webhook_signature(payload, signature, secret).
CallVerify ==
    /\ probe = NoProbe
    /\ \E payload \in Bodies, key \in Secrets \cup Keys :
         \E signature \in SignaturesFor(payload) :
            probe' = [fn |-> "verify", payload |-> payload, signature |-> signature,
                      key |-> key,
                      result |-> verify_webhook_signature(payload, signature, key)]
    /\ UNCHANGED <<secret, username, pc, req, i, count, calls, inflight, resp>>

NextVerify == CallVerify

\* The note process_new_entries derives from an entry's content and hands to
\* add_article, and whether add_article sends it.
CallDescribe ==
    /\ probe = NoProbe
    /\ \E content \in Contents :
         LET description == NewEntriesDescription(content)
         IN  probe' = [fn |-> "note", content |-> content, note |-> description,
                       sent |-> SelectionSent(description)]
    /\ UNCHANGED <<secret, username, pc, req, i, count, calls, inflight, resp>>

NextNote == CallDescribe

SpecNote == Init /\ [][NextNote]_vars

SpecVerify == Init /\ [][NextVerify]_vars

Next == WebhookHandler \/ PostReturns \/ NextRequest

Spec == Init /\ [][Next]_vars

----------------------------------------------------------------------------
(* Properties *)

\* The request in hand carries the hex HMAC-SHA256 of its body under the
\* configured secret.
SignatureIsValid == req.signature = HmacSha256Hex(secret, req.body)

\* The request in hand got past lines 275-280.
PassedSignature == secret = NoSecret \/ SignatureIsValid

\* The entries list and the single entry of the request in hand.
ReqEntries == EntriesOf(req.body)

ReqEntry == EntryOf(req.body)

\* C1: with a non-empty secret configured, a request whose signature is not
\* the hex HMAC-SHA256 of its body is answered 403 with an error key, and no
\* outbound save call is made for it.  The code answers 500 when the header
\* holds a non-ASCII character.
C1_InvalidSignatureForbidden ==
    (pc = "done" /\ secret # NoSecret /\ ~SignatureIsValid)
        => /\ resp.code = 403
           /\ "error" \in DOMAIN resp.body
           /\ calls = <<>>

C3_OutcomeTable ==
    \A k \in 1..Len(calls) :
        LET c == calls[k]
        IN  /\ c.reply = 201 => c.result.outcome = "Saved"
            /\ c.reply = 403 => c.result.outcome = "AuthFailed"
            /\ c.reply = 400 => c.result.outcome = "BadRequest"
            /\ c.reply = 500 => c.result.outcome = "ServiceUnavailable"
            /\ c.reply \in {200, 418} => c.result.outcome = "UnexpectedStatus"
            /\ c.reply = 0 => c.result.outcome = "TransportError"
            /\ c.result.ok <=> c.reply = 201
            /\ c.result.ok <=> c.result.outcome = "Saved"
            /\ ~c.result.raised

\* C3 witness: a batch in which one call got 200 and a later one 201.
C3_Witness ==
    /\ Len(calls) = 2
    /\ calls[1].reply = 200
    /\ calls[1].result.outcome = "UnexpectedStatus"
    /\ calls[2].reply = 201
    /\ calls[2].result.ok

\* The number of completed calls of this request that reported success.
RECURSIVE SavedCalls(_)
SavedCalls(cs) ==
    IF cs = <<>> THEN 0
    ELSE SavedCalls(Tail(cs)) + (IF Head(cs).reply = 201 THEN 1 ELSE 0)

\* C4: on both paths an entry whose url is missing or empty never causes an
\* outbound save call and is never counted as processed.
C4_NoUrlNoCall ==
    /\ req.event_type = "new_entries" =>
          /\ \A k \in 1..Len(calls) : ~Falsy(ReqEntries[calls[k].entry].url)
          /\ inflight # 0 => ~Falsy(ReqEntries[inflight].url)
          /\ count <= Cardinality({ j \in 1..Len(ReqEntries) : ~Falsy(ReqEntries[j].url) })
          /\ (pc = "done" /\ "entries_processed" \in DOMAIN resp.body)
                => resp.body.entries_processed = SavedCalls(calls)
    /\ (req.event_type = "save_entry" /\ Falsy(ReqEntry.url)) =>
          /\ calls = <<>>
          /\ inflight = 0
          /\ (pc = "done" /\ "entry_processed" \in DOMAIN resp.body)
                => resp.body.entry_processed = FALSE

\* C4 witness: a batch of a url-less entry and a saved one answered with
\* entries_processed 1.
C4_Witness ==
    /\ pc = "done"
    /\ req.event_type = "new_entries"
    /\ Len(ReqEntries) = 2
    /\ Falsy(ReqEntries[1].url)
    /\ ReqEntries[1].isObj
    /\ Len(calls) = 1
    /\ calls[1].entry = 2
    /\ resp.code = 200
    /\ resp.body.entries_received = 2
    /\ resp.body.entries_processed = 1

\* The request in hand is a new_entries request that got past the signature
\* and the parse checks and whose body has the shape the handler reads: an
\* object whose feed, when present, is an object and whose entries, when
\* present, is a list.
AcceptedNewEntries ==
    /\ req.event_type = "new_entries"
    /\ PassedSignature
    /\ req.body.json = "object"
    /\ req.body.feed # "null"
    /\ req.body.entries # "null"

\* The entries with a non-empty url whose save call returned Saved.
SavedEntries ==
    { j \in 1..Len(ReqEntries) :
        /\ ~Falsy(ReqEntries[j].url)
        /\ \E k \in 1..Len(calls) : calls[k].entry = j /\ calls[k].reply = 201 }

\* C5: every accepted new_entries request is answered with entries_received
\* the number of entries of the payload, entries_processed the number of
\* entries with a url whose save returned Saved, and feed the feed title or
\* "Unknown feed".  The code answers 500 when an entry is not an object (C6).
C5_SummaryCounts ==
    (pc = "done" /\ AcceptedNewEntries) =>
        /\ resp.code = 200
        /\ DOMAIN resp.body =
              {"status", "event_type", "entries_received", "entries_processed", "feed"}
        /\ resp.body.entries_received = Len(ReqEntries)
        /\ resp.body.entries_processed = Cardinality(SavedEntries)
        /\ resp.body.feed = (IF req.body.feed = "titled" THEN "F" ELSE "Unknown feed")
        /\ resp.body.entries_processed <= resp.body.entries_received

\* C6: within a new_entries batch a failing entry (failed save, transport
\* error, malformed record) never aborts the entries after it and never fails
\* the response: every entry is reached and the response is the success
\* summary.  The code answers 500 and stops at an entry that is not an object.
C6_EntryFailureIsolated ==
    (pc = "done" /\ AcceptedNewEntries /\ username # "") =>
        /\ resp.code = 200
        /\ resp.body.status = "success"
        /\ i = Len(ReqEntries)

\* C7: the outbound calls of a new_entries request are made one at a time in
\* payload order, at most one per entry and none repeated, so there are never
\* more calls than entries and a call starts only after every earlier one
\* returned.
C7_SequentialSingleAttempt ==
    req.event_type = "new_entries" =>
        /\ \A k \in 1..Len(calls) : calls[k].entry \in 1..Len(ReqEntries)
        /\ \A k \in 1..(Len(calls) - 1) : calls[k].entry < calls[k + 1].entry
        /\ Len(calls) + (IF inflight # 0 THEN 1 ELSE 0) <= Len(ReqEntries)
        /\ inflight # 0 => \A k \in 1..Len(calls) : calls[k].entry < inflight
        /\ (pc = "post") <=> (inflight # 0)

\* C7 witness: the first call failed with 500 and the handler has moved on to
\* the call for the second entry.
C7_Witness ==
    /\ req.event_type = "new_entries"
    /\ pc = "post"
    /\ inflight = 2
    /\ Len(calls) = 1
    /\ calls[1].entry = 1
    /\ calls[1].reply = 500

\* C8: a save_entry request whose entry cannot be saved (no url, non-201
\* status, transport error) is answered 200 with status "error",
\* entry_processed false and the entry's title; entry_processed is true
\* exactly when the upstream save returned Saved.
C8_SaveEntryOutcome ==
    (pc = "done" /\ req.event_type = "save_entry" /\ PassedSignature
        /\ req.body.json = "object" /\ ReqEntry.isObj) =>
        LET saved == calls # <<>> /\ calls[1].reply = 201
        IN  /\ resp.code = 200
            /\ Len(calls) <= 1
            /\ resp.body.event_type = "save_entry"
            /\ resp.body.entry_processed = saved
            /\ resp.body.status = (IF saved THEN "success" ELSE "error")
            /\ resp.body.entry_title =
                  (IF ReqEntry.title = Absent THEN "Unknown title" ELSE ReqEntry.title)
            /\ Falsy(ReqEntry.url) => ~saved

\* C8 witness: the upstream answered 403 to the save of an entry titled "T".
C8_Witness ==
    /\ pc = "done"
    /\ req.event_type = "save_entry"
    /\ Len(calls) = 1
    /\ calls[1].reply = 403
    /\ ReqEntry.title = "T"
    /\ resp.code = 200
    /\ resp.body.status = "error"
    /\ resp.body.entry_processed = FALSE
    /\ resp.body.entry_title = "T"

\* C9 as stated: every response of POST /webhook, on every path, holds a
\* status field and an event_type field.
C9_EveryResponseHasStatus ==
    pc = "done" => {"status", "event_type"} \subseteq DOMAIN resp.body

\* C9 as amended: the responses of the three routed paths (new_entries,
\* save_entry, ignored: status 200) hold a status and an event_type field; the
\* forbidden, bad-request and internal-error responses hold an error field
\* only.
C9_RoutedResponsesHaveStatus ==
    pc = "done" =>
        /\ resp.code \in {200, 400, 403, 500}
        /\ resp.code = 200 =>
              /\ {"status", "event_type"} \subseteq DOMAIN resp.body
              /\ resp.body.event_type = req.event_type
        /\ resp.code # 200 => DOMAIN resp.body = {"error"}

\* C9 witness: an event type that is not handled is answered "ignored".
C9_Witness ==
    /\ pc = "done"
    /\ req.event_type = "entry_deleted"
    /\ resp.code = 200
    /\ resp.body.status = "ignored"
    /\ resp.body.event_type = "entry_deleted"

\* C10: after signature verification, a body that does not parse and a body
\* that parses to an empty or null value (an empty object included) are
\* answered 400 and handling ends: no routing, no outbound save call,
\* whatever the event type.
C10_EmptyOrInvalidBodyRejected ==
    (PassedSignature /\ req.body.json \in {"invalid", "null", "emptyobj", "emptylist"}
        /\ pc # "idle") =>
        /\ pc = "done"
        /\ resp.code = 400
        /\ DOMAIN resp.body = {"error"}
        /\ calls = <<>>
        /\ inflight = 0

\* C10 witness: a correctly signed new_entries request whose body is {}.
C10_Witness ==
    /\ pc = "done"
    /\ secret # NoSecret
    /\ SignatureIsValid
    /\ req.event_type = "new_entries"
    /\ req.body.json = "emptyobj"
    /\ resp.code = 400

\* An exception is raised while the request in hand is verified, routed or
\* processed and is not handled where it is raised: compare_digest on a
\* non-ASCII signature, .get on a parsed body or a single entry that is not an
\* object, a feed or entries field that is null, or a list entry that is not
\* an object (the handler at lines 191-192 raises again).
RaisesToTopLevel ==
    \/ secret # NoSecret /\ req.signature.kind = "nonascii"
    \/ /\ PassedSignature
       /\ req.body.json \in {"list", "object"}
       /\ \/ req.event_type \in {"new_entries", "save_entry"} /\ req.body.json = "list"
          \/ /\ req.event_type = "new_entries"
             /\ req.body.json = "object"
             /\ (req.body.feed = "null" \/ req.body.entries = "null")
          \/ /\ req.event_type = "save_entry"
             /\ req.body.json = "object"
             /\ ~ReqEntry.isObj
          \/ /\ AcceptedNewEntries
             /\ username # ""
             /\ \E j \in 1..Len(ReqEntries) : ~ReqEntries[j].isObj

\* C11: an unexpected error raised while routing or processing a request is
\* caught at the top level and answered 500 with an error body; a request has
\* a response exactly when its handling is over, and the service then takes
\* the next request.
C11_ErrorsCaughtAtTopLevel ==
    /\ (pc = "done" /\ RaisesToTopLevel) =>
          /\ resp.code = 500
          /\ resp.body = [error |-> "Internal server error"]
    /\ (pc = "done" /\ resp.code = 500) => RaisesToTopLevel
    /\ (pc = "done") <=> (resp # NoResponse)
    /\ pc \in {"idle", "post", "done"}
    /\ pc = "done" => ENABLED NextRequest
    /\ pc = "post" => ENABLED PostReturns
    /\ pc = "idle" => ENABLED WebhookHandler

\* C11 witness: a new_entries request whose body parsed to a non-empty list
\* has been answered 500.
C11_Witness ==
    /\ pc = "done"
    /\ PassedSignature
    /\ req.event_type = "new_entries"
    /\ req.body.json = "list"
    /\ resp.code = 500
    /\ calls = <<>>

\* s without its first k characters.
RECURSIVE DropChars(_, _)
DropChars(s, k) ==
    IF k <= 0 \/ s = <<>> THEN s
    ELSE IF Head(s).n > k THEN <<[ch |-> Head(s).ch, n |-> Head(s).n - k]>> \o Tail(s)
    ELSE DropChars(Tail(s), k - Head(s).n)

\* C12 as stated: content of length 500 yields a note of exactly 203
\* characters, content of length 50 yields the full 50-character stripped
\* text, and no note is sent when content is empty or absent.
C12_NoteFromContentLength ==
    probe.fn = "note" =>
        LET content == probe.content
            stripped == StripTags(content.text)
        IN  /\ (content.present /\ StrLen(content.text) = 500) =>
                  probe.sent /\ StrLen(probe.note.text) = 203
            /\ (content.present /\ StrLen(content.text) = 50) =>
                  probe.sent /\ probe.note.text = stripped /\ StrLen(probe.note.text) = 50
            /\ (~content.present \/ content.text = <<>>) => ~probe.sent

\* C12 as amended: the lengths are those of the tag-stripped text.  Stripped
\* text of length 500 yields a note of 203 characters, of length 50 the 50
\* characters themselves; in general the note is the stripped text when it has
\* at most 200 characters and otherwise its first 200 characters followed by
\* "..."; no note is sent when content is empty or absent or nothing is left
\* after stripping.
C12_NoteFromStrippedText ==
    probe.fn = "note" =>
        LET content == probe.content
            note == probe.note.text
            stripped == StripTags(content.text)
            len == StrLen(stripped)
        IN  /\ (~content.present \/ content.text = <<>>) =>
                  ~probe.sent /\ ~probe.note.present
            /\ (content.present /\ content.text # <<>>) =>
                  /\ probe.sent <=> len > 0
                  /\ len <= 200 => note = stripped
                  /\ len > 200 =>
                        /\ StrLen(note) = 203
                        /\ Take(note, 200) = Take(stripped, 200)
                        /\ DropChars(note, 200) = <<[ch |-> ".", n |-> 3]>>
                  /\ len = 500 => StrLen(note) = 203
                  /\ len = 50 => note = stripped /\ StrLen(note) = 50
            \* tag-free content is its own stripped text
            /\ (\A k \in 1..Len(content.text) : content.text[k].ch = "a") =>
                  stripped = content.text
            \* "<a>" followed by 47 characters: the 47 characters
            /\ content.text = <<[ch |-> "<", n |-> 1], [ch |-> "a", n |-> 1],
                                [ch |-> ">", n |-> 1], [ch |-> "a", n |-> 47]>> =>
                  note = <<[ch |-> "a", n |-> 47]>>

\* C12 witness: 500 characters of plain content gave a note of 203 characters.
C12_Witness ==
    /\ probe.fn = "note"
    /\ probe.content.text = <<[ch |-> "a", n |-> 500]>>
    /\ probe.sent
    /\ probe.note.text = <<[ch |-> "a", n |-> 200], [ch |-> ".", n |-> 3]>>

\* C13: with no bookmarking-service username configured no outbound save
\* call is made for any payload; a new_entries request is still answered
\* "success" with entries_processed 0 and entries_received the payload's
\* count, and a save_entry request "error" with entry_processed false, even
\* for entries with a valid url.
C13_NoUsernameNoCall ==
    username = "" =>
        /\ calls = <<>>
        /\ inflight = 0
        /\ pc # "post"
        /\ (pc = "done" /\ AcceptedNewEntries) =>
              /\ resp.code = 200
              /\ resp.body.status = "success"
              /\ resp.body.entries_processed = 0
              /\ resp.body.entries_received = Len(ReqEntries)
        /\ (pc = "done" /\ req.event_type = "save_entry" /\ PassedSignature
               /\ req.body.json = "object" /\ ReqEntry.isObj) =>
              /\ resp.code = 200
              /\ resp.body.status = "error"
              /\ resp.body.entry_processed = FALSE

\* C13 witness: without a username, a batch of two entries, the first with a
\* valid url, has been answered with entries_received 2, entries_processed 0.
C13_Witness ==
    /\ username = ""
    /\ pc = "done"
    /\ AcceptedNewEntries
    /\ Len(ReqEntries) = 2
    /\ ReqEntries[1].isObj
    /\ ~Falsy(ReqEntries[1].url)
    /\ ReqEntries[1].content # NonString
    /\ resp.code = 200
    /\ resp.body.status = "success"
    /\ resp.body.entries_received = 2
    /\ resp.body.entries_processed = 0
    /\ calls = <<>>

====
